---- MODULE Spec2Model ----
(***************************************************************************)
(* Model of the YOLOX body/head/hand detection pipeline of                 *)
(* 426_YOLOX-Body-Head-Hand/demo/demo_yolox_onnx.py: class YOLOXONNX       *)
(* (__init__, __call__, _preprocess, _postprocess) and the frame loop of   *)
(* main() that calls it.                                                   *)
(*                                                                         *)
(* Numbers.  The raw output tensor is float32[N,7].  A raw class id or     *)
(* coordinate v is represented by the integer v * CoordScale (fixed point, *)
(* so that fractional values exist and int() really truncates); a score s  *)
(* and the threshold are represented by s * 100 (0.35 is 35).  Only order  *)
(* comparisons are applied to scores, so their scale is immaterial.        *)
(* Image sizes, model dimensions and the output coordinates are integers.  *)
(***************************************************************************)
EXTENDS Integers, Sequences, FiniteSets, TLC

VARIABLES
    class_score_th,   \* self.class_score_th
    input_shapes,     \* self.input_shapes[0] = <<1, 3, H_model, W_model>>
    input_names,      \* self.input_names
    output_names,     \* self.output_names
    providers,        \* self.providers
    onnx_session,     \* the engine: the outputs it has produced, by input tensor
    pc,               \* position of main()/__call__
    image,            \* the frame handed to __call__
    temp_image,       \* __call__'s deep copy of the frame
    inferece_image,   \* the batched input tensor
    boxes,            \* the raw output tensor, rows of 7 numbers
    result_boxes,     \* _postprocess's result_boxes
    result_scores,    \* _postprocess's result_scores
    error,            \* the exception leaving __call__, "none" if none
    engine_error,     \* the exception the engine raised, "none" if none
    run_calls,        \* number of onnx_session.run calls of the current __call__
    post_calls,       \* number of _postprocess calls of the current __call__
    first_result,     \* per image, what the first completed __call__ returned
    called            \* the frames handed to __call__ so far, in order

vars == <<class_score_th, input_shapes, input_names, output_names, providers, onnx_session,
          pc, image, temp_image, inferece_image, boxes, result_boxes,
          result_scores, error, engine_error, run_calls, post_calls,
          first_result, called>>

fields == <<class_score_th, input_shapes, input_names, output_names, providers>>

(***************************************************************************)
(* Bounds and input sets                                                   *)
(***************************************************************************)
CoordScale == 2          \* raw class ids / coordinates come in steps of 1/CoordScale
MaxRows == 3             \* rows of a raw output tensor handed to _postprocess
MaxEngineRows == 1       \* rows of a raw output tensor the engine returns in the frame loop
MaxFrames == 3           \* frames main() reads

DefaultClassScoreTh == 35    \* class_score_th = 0.35

Thresholds == {DefaultClassScoreTh, 60}
ScoreVals == {35, 36, 60, 90}

\* input_shapes[0] of the loaded model: the shipped 1x3x256x320 and a small one
ModelShapes == {<<1, 3, 256, 320>>, <<1, 3, 2, 3>>}

NoImage == [shape |-> <<0, 0, 3>>, data |-> 0]
\* frames: height x width x 3, with pixel content `data`
Images == {[shape |-> <<480, 640, 3>>, data |-> 1],
           [shape |-> <<3, 4, 3>>, data |-> 2]}

EngineErrors == {"InvalidArgument", "RuntimeException"}

\* raw values (in units of 1/CoordScale) around the edges of the model frame:
\* below 0, 0, inside, the model dimension, beyond the model dimension
EdgeVals(dim) == {-1, 0, 1, CoordScale * dim, CoordScale * dim + 3}
ClassVals == {0, CoordScale, CoordScale + 1}

\* one row [batchno, classid, score, x1, y1, x2, y2] with every combination of edge values
EdgeRows(shapes) ==
    {<<0, c, s, x1, y1, x2, y2>> :
        c \in ClassVals, s \in ScoreVals,
        x1 \in EdgeVals(shapes[4]), y1 \in EdgeVals(shapes[3]),
        x2 \in EdgeVals(shapes[4]), y2 \in EdgeVals(shapes[3])}

\* the row [0, 1, 0.9, 10, 20, 100, 200]
ExampleRow == <<0, CoordScale, 90, 10 * CoordScale, 20 * CoordScale,
                100 * CoordScale, 200 * CoordScale>>

\* rows of two detections (the full model frame, class 0; an inner box, class 1)
\* at every score
PlainRows(shapes) ==
    {<<0, 0, s, 0, 0, CoordScale * shapes[4], CoordScale * shapes[3]>> : s \in ScoreVals}
    \cup {<<0, CoordScale, s, 1, 2, CoordScale * shapes[4] - 1, CoordScale * shapes[3] - 1>> :
            s \in ScoreVals}

SeqsUpTo(S, n) == UNION {[1..k -> S] : k \in 0..n}

\* raw output tensors handed to _postprocess
PostRaws(shapes) ==
    SeqsUpTo(PlainRows(shapes), MaxRows)
    \cup {<<r>> : r \in EdgeRows(shapes)}
    \cup {<<ExampleRow>>, <<ExampleRow, ExampleRow>>}

\* raw output tensors the engine returns in the frame loop
EngineOutputs(shapes) ==
    SeqsUpTo({r \in PlainRows(shapes) : r[3] \in {DefaultClassScoreTh, 90}}, MaxEngineRows)

(***************************************************************************)
(* Pure helpers                                                            *)
(***************************************************************************)
\* Python int() of a float n/d (d > 0): truncation toward zero
IntTrunc(n, d) == IF n >= 0 THEN n \div d ELSE -((-n) \div d)

\* Python max(0, x): the first argument unless the second is greater
Max0(x) == IF x > 0 THEN x ELSE 0

\* Python min(x, m): the first argument unless the second is smaller
MinWith(x, m) == IF m < x THEN m ELSE x

\* slip: the kept rows are collected newest first
BoolIndexReversed(arr, mask) ==
    LET F[i \in 0..Len(arr)] ==
            IF i = 0 THEN <<>>
            ELSE IF mask[i] THEN <<arr[i]>> \o F[i - 1] ELSE F[i - 1]
    IN F[Len(arr)]

\* numpy boolean-mask indexing arr[mask, :]
BoolIndex(arr, mask) ==
    LET F[i \in 0..Len(arr)] ==
            IF i = 0 THEN <<>>
            ELSE IF mask[i] THEN Append(F[i - 1], arr[i]) ELSE F[i - 1]
    IN F[Len(arr)]

\* _preprocess: cv2.resize to (W_model, H_model), HWC -> CHW, float32.
\* The pixel content after resizing is a function of the source content and size.
Preprocess(img, shapes) ==
    [shape |-> <<3, shapes[3], shapes[4]>>,
     dtype |-> "float32",
     data  |-> <<img.data, img.shape[1], img.shape[2]>>]

\* slip: x_max scaled by the image height and y_max by the image width
BoxOfSwapped(box, image_width, image_height, shapes) ==
    LET class_id == IntTrunc(box[2], CoordScale)
        x_min == IntTrunc(Max0(box[4]) * image_width, CoordScale * shapes[4])
        y_min == IntTrunc(Max0(box[5]) * image_height, CoordScale * shapes[3])
        x_max == IntTrunc(MinWith(box[6], CoordScale * shapes[4]) * image_height,
                          CoordScale * shapes[4])
        y_max == IntTrunc(MinWith(box[7], CoordScale * shapes[3]) * image_width,
                          CoordScale * shapes[3])
    IN <<x_min, y_min, x_max, y_max, class_id>>

\* body of the zip loop of _postprocess for one kept row
BoxOf(box, image_width, image_height, shapes) ==
    LET class_id == IntTrunc(box[2], CoordScale)
        x_min == IntTrunc(Max0(box[4]) * image_width, CoordScale * shapes[4])
        y_min == IntTrunc(Max0(box[5]) * image_height, CoordScale * shapes[3])
        x_max == IntTrunc(MinWith(box[6], CoordScale * shapes[4]) * image_width,
                          CoordScale * shapes[4])
        y_max == IntTrunc(MinWith(box[7], CoordScale * shapes[3]) * image_height,
                          CoordScale * shapes[3])
    IN <<x_min, y_min, x_max, y_max, class_id>>

\* slip: >= instead of >
KeepIdxsGe(scores, th) == [i \in 1..Len(scores) |-> scores[i][1] >= th]

\* slip: the comparison inverted
KeepIdxsLt(scores, th) == [i \in 1..Len(scores) |-> scores[i][1] < th]

\* keep_idxs = scores[:, 0] > self.class_score_th
KeepIdxs(scores, th) == [i \in 1..Len(scores) |-> scores[i][1] > th]

\* slip: the loop zips the kept boxes with the unfiltered scores
ScoresKeepUnmasked(scores, keep_idxs) == scores

\* scores_keep = scores[keep_idxs, :]
ScoresKeep(scores, keep_idxs) == BoolIndex(scores, keep_idxs)

\* boxes_keep = boxes[keep_idxs, :]
BoxesKeep(raw, keep_idxs) == BoolIndex(raw, keep_idxs)

\* _postprocess(image, boxes) with self.class_score_th = th, self.input_shapes[0] = shapes
Postprocess(img, raw, th, shapes) ==
    LET image_height == img.shape[1]
        image_width == img.shape[2]
        empty == [boxes |-> <<>>, scores |-> <<>>]
    IN  IF Len(raw) > 0
        THEN LET scores == [i \in 1..Len(raw) |-> <<raw[i][3]>>]
                 keep_idxs == KeepIdxs(scores, th)
                 scores_keep == ScoresKeep(scores, keep_idxs)
                 boxes_keep == BoxesKeep(raw, keep_idxs)
                 n == IF Len(boxes_keep) < Len(scores_keep)
                      THEN Len(boxes_keep) ELSE Len(scores_keep)
             IN  IF Len(boxes_keep) > 0
                 THEN [boxes  |-> [i \in 1..n |->
                                     BoxOf(boxes_keep[i], image_width, image_height, shapes)],
                       scores |-> [i \in 1..n |-> scores_keep[i]]]
                 ELSE empty
        ELSE empty

(***************************************************************************)
(* The frame loop of main() and YOLOXONNX.__call__                         *)
(***************************************************************************)
\* state after YOLOXONNX.__init__ and the opening of the capture
Init ==
    /\ class_score_th \in Thresholds
    /\ input_shapes \in ModelShapes
    /\ input_names = <<"images">>
    /\ output_names = <<"batchno_classid_score_x1y1x2y2">>
    /\ providers = <<"CPUExecutionProvider">>
    /\ onnx_session = <<>>
    /\ pc = "idle"
    /\ image = NoImage
    /\ temp_image = NoImage
    /\ inferece_image = <<>>
    /\ boxes = <<>>
    /\ result_boxes = <<>>
    /\ result_scores = <<>>
    /\ error = "none"
    /\ engine_error = "none"
    /\ run_calls = 0
    /\ post_calls = 0
    /\ first_result = <<>>
    /\ called = <<>>

\* main(): cap.read() gives a frame; __call__ copies it and preprocesses the copy
Call(img) ==
    /\ pc = "idle"
    /\ Len(called) < MaxFrames
    /\ called' = Append(called, img)
    /\ image' = img
    /\ temp_image' = img
    /\ inferece_image' = <<Preprocess(img, input_shapes)>>
    /\ boxes' = <<>>
    /\ result_boxes' = <<>>
    /\ result_scores' = <<>>
    /\ run_calls' = 0
    /\ post_calls' = 0
    /\ pc' = "run"
    /\ UNCHANGED <<fields, onnx_session, error, engine_error, first_result>>

\* main(): cap.read() fails, the loop ends
EndOfVideo ==
    /\ pc = "idle"
    /\ pc' = "done"
    /\ UNCHANGED <<fields, onnx_session, image, temp_image, inferece_image, boxes,
                   result_boxes, result_scores, error, engine_error, run_calls,
                   post_calls, first_result, called>>

\* self.onnx_session.run(...)[0] returns: the engine is a function of its input
RunOk ==
    /\ pc = "run"
    /\ \E raw \in EngineOutputs(input_shapes) :
          /\ inferece_image \in DOMAIN onnx_session => raw = onnx_session[inferece_image]
          /\ boxes' = raw
          /\ onnx_session' = (inferece_image :> raw) @@ onnx_session
    /\ run_calls' = run_calls + 1
    /\ pc' = "post"
    /\ UNCHANGED <<fields, image, temp_image, inferece_image, result_boxes,
                   result_scores, error, engine_error, post_calls, first_result, called>>

\* slip: the engine's error is swallowed and the frame is treated as having no rows
RunRaiseSwallowed ==
    /\ pc = "run"
    /\ inferece_image \notin DOMAIN onnx_session
    /\ \E e \in EngineErrors : engine_error' = e
    /\ boxes' = <<>>
    /\ run_calls' = run_calls + 1
    /\ pc' = "post"
    /\ UNCHANGED <<fields, onnx_session, image, temp_image, inferece_image, error,
                   result_boxes, result_scores, post_calls, first_result, called>>

\* self.onnx_session.run(...) raises: nothing in __call__ or main() catches it
RunRaise ==
    /\ pc = "run"
    /\ inferece_image \notin DOMAIN onnx_session
    /\ \E e \in EngineErrors :
          /\ engine_error' = e
          /\ error' = e
    /\ run_calls' = run_calls + 1
    /\ pc' = "raised"
    /\ UNCHANGED <<fields, onnx_session, image, temp_image, inferece_image, boxes,
                   result_boxes, result_scores, post_calls, first_result, called>>

\* slip: the threshold adapts to the frame just processed
PostprocessStepAdaptive ==
    /\ pc = "post"
    /\ LET r == Postprocess(temp_image, boxes, class_score_th, input_shapes)
       IN  /\ result_boxes' = r.boxes
           /\ result_scores' = r.scores
           /\ first_result' = IF image \in DOMAIN first_result
                               THEN first_result
                               ELSE (image :> r) @@ first_result
           /\ class_score_th' = IF Len(r.scores) > 0 THEN r.scores[1][1] ELSE class_score_th
    /\ post_calls' = post_calls + 1
    /\ pc' = "returned"
    /\ UNCHANGED <<input_shapes, input_names, output_names, providers, onnx_session,
                   image, temp_image, inferece_image, boxes,
                   error, engine_error, run_calls, called>>

\* self._postprocess(image=temp_image, boxes=boxes) and the return of __call__
PostprocessStep ==
    /\ pc = "post"
    /\ LET r == Postprocess(temp_image, boxes, class_score_th, input_shapes)
       IN  /\ result_boxes' = r.boxes
           /\ result_scores' = r.scores
           /\ first_result' = IF image \in DOMAIN first_result
                               THEN first_result
                               ELSE (image :> r) @@ first_result
    /\ post_calls' = post_calls + 1
    /\ pc' = "returned"
    /\ UNCHANGED <<fields, onnx_session, image, temp_image, inferece_image, boxes,
                   error, engine_error, run_calls, called>>

\* main(): the frame is annotated, shown and written; the loop goes on
FrameShown ==
    /\ pc = "returned"
    /\ pc' = "idle"
    /\ UNCHANGED <<fields, onnx_session, image, temp_image, inferece_image, boxes,
                   result_boxes, result_scores, error, engine_error, run_calls,
                   post_calls, first_result, called>>

\* main(): ESC is pressed, the loop ends
EscPressed ==
    /\ pc = "returned"
    /\ pc' = "done"
    /\ UNCHANGED <<fields, onnx_session, image, temp_image, inferece_image, boxes,
                   result_boxes, result_scores, error, engine_error, run_calls,
                   post_calls, first_result, called>>

Next ==
    \/ \E img \in Images : Call(img)
    \/ EndOfVideo
    \/ RunOk
    \/ RunRaise
    \/ PostprocessStep
    \/ FrameShown
    \/ EscPressed

Spec == Init /\ [][Next]_vars

(***************************************************************************)
(* _postprocess as a pure function: every input, one application           *)
(***************************************************************************)
\* state at the call of _postprocess inside the first __call__
InitPost ==
    /\ class_score_th \in Thresholds
    /\ input_shapes \in ModelShapes
    /\ input_names = <<"images">>
    /\ output_names = <<"batchno_classid_score_x1y1x2y2">>
    /\ providers = <<"CPUExecutionProvider">>
    /\ image \in Images
    /\ temp_image = image
    /\ inferece_image = <<Preprocess(image, input_shapes)>>
    /\ boxes \in PostRaws(input_shapes)
    /\ onnx_session = (inferece_image :> boxes)
    /\ pc = "post"
    /\ result_boxes = <<>>
    /\ result_scores = <<>>
    /\ error = "none"
    /\ engine_error = "none"
    /\ run_calls = 1
    /\ post_calls = 0
    /\ first_result = <<>>
    /\ called = <<image>>

NextPost == PostprocessStep

SpecPost == InitPost /\ [][NextPost]_vars

(***************************************************************************)
(* Properties                                                              *)
(***************************************************************************)
Returned == pc = "returned"
W_model == input_shapes[4]
H_model == input_shapes[3]
image_width == image.shape[2]
image_height == image.shape[1]

\* indices of the raw rows whose score is above the threshold th
KeptRows(raw, th) == {j \in 1..Len(raw) : raw[j][3] > th}

\* the i-th smallest of them
NthKept(raw, th, i) ==
    CHOOSE j \in KeptRows(raw, th) :
        Cardinality({k \in KeptRows(raw, th) : k < j}) = i - 1

Clamp(x, lo, hi) == IF x < lo THEN lo ELSE IF x > hi THEN hi ELSE x

Zip(bs, ss) == [i \in 1..Len(bs) |-> <<bs[i], ss[i]>>]

\* a is b with some elements left out
IsSubseq(a, b) ==
    /\ Len(a) <= Len(b)
    /\ \E f \in [1..Len(a) -> 1..Len(b)] :
          /\ \A i \in 1..Len(a) : a[i] = b[f[i]]
          /\ \A i, k \in 1..Len(a) : i < k => f[i] < f[k]

\* C1: every returned box lies inside the image and is well ordered:
\* 0 <= x_min <= x_max <= image_width and 0 <= y_min <= y_max <= image_height,
\* whatever the raw coordinates are.
C1_BoxesInsideImage ==
    Returned =>
        \A i \in 1..Len(result_boxes) :
            /\ 0 <= result_boxes[i][1]
            /\ result_boxes[i][1] <= result_boxes[i][3]
            /\ result_boxes[i][3] <= image_width
            /\ 0 <= result_boxes[i][2]
            /\ result_boxes[i][2] <= result_boxes[i][4]
            /\ result_boxes[i][4] <= image_height

\* C2: a raw row is kept if and only if its score is strictly above class_score_th:
\* every returned score is above the threshold, there are as many results as rows
\* above the threshold, and each such row appears in the output.
C2_KeepIffAboveThreshold ==
    Returned =>
        /\ \A i \in 1..Len(result_scores) : result_scores[i][1] > class_score_th
        /\ Len(result_scores) = Cardinality(KeptRows(boxes, class_score_th))
        /\ \A j \in KeptRows(boxes, class_score_th) :
              \E i \in 1..Len(result_scores) :
                  /\ result_scores[i] = <<boxes[j][3]>>
                  /\ result_boxes[i] = BoxOf(boxes[j], image_width, image_height, input_shapes)

C2_Witness ==
    /\ Returned
    /\ \E j, k \in 1..Len(boxes) :
          /\ boxes[j][3] = class_score_th
          /\ boxes[k][3] > class_score_th
    /\ Len(result_scores) >= 1
    /\ Len(result_scores) < Len(boxes)

\* C3: boxes and scores have the same length, and the i-th box and the i-th score
\* come from one and the same raw row.
C3_ParallelSequences ==
    Returned =>
        /\ Len(result_boxes) = Len(result_scores)
        /\ \A i \in 1..Len(result_boxes) :
              \E j \in 1..Len(boxes) :
                  /\ result_scores[i] = <<boxes[j][3]>>
                  /\ result_boxes[i] = BoxOf(boxes[j], image_width, image_height, input_shapes)

C3_Witness ==
    /\ Returned
    /\ Len(result_boxes) >= 2
    /\ Len(result_boxes) < Len(boxes)
    /\ result_boxes[1] # result_boxes[2]
    /\ result_scores[1] # result_scores[2]

\* C4: the output is the order-preserving subsequence of the kept rows: the i-th
\* detection comes from the i-th raw row whose score is above the threshold.
C4_RowOrderPreserved ==
    Returned =>
        /\ Len(result_boxes) = Cardinality(KeptRows(boxes, class_score_th))
        /\ Len(result_scores) = Cardinality(KeptRows(boxes, class_score_th))
        /\ \A i \in 1..Len(result_boxes) :
              LET j == NthKept(boxes, class_score_th, i)
              IN  /\ result_scores[i] = <<boxes[j][3]>>
                  /\ result_boxes[i] = BoxOf(boxes[j], image_width, image_height, input_shapes)

\* two kept rows in ascending score order around a dropped one
C4_Witness ==
    /\ Returned
    /\ Len(boxes) = 3
    /\ KeptRows(boxes, class_score_th) = {1, 3}
    /\ Len(result_scores) = 2
    /\ result_scores[1][1] < result_scores[2][1]

\* C5: a kept row that spans the full model frame (x1 = 0, y1 = 0, x2 = W_model,
\* y2 = H_model) yields the box [0, 0, image_width, image_height].
C5_FullFrame ==
    Returned =>
        \A i \in 1..Len(result_boxes) :
            i <= Cardinality(KeptRows(boxes, class_score_th)) =>
                LET r == boxes[NthKept(boxes, class_score_th, i)]
                IN  (/\ r[4] = 0
                     /\ r[5] = 0
                     /\ r[6] = CoordScale * W_model
                     /\ r[7] = CoordScale * H_model)
                    => SubSeq(result_boxes[i], 1, 4) = <<0, 0, image_width, image_height>>

C5_Witness ==
    /\ Returned
    /\ image_width # W_model
    /\ image_height # H_model
    /\ image_width # image_height
    /\ Len(result_boxes) = 1
    /\ boxes = <<<<0, 0, 90, 0, 0, CoordScale * W_model, CoordScale * H_model>>>>
    /\ SubSeq(result_boxes[1], 1, 4) = <<0, 0, image_width, image_height>>

\* C6: with no raw rows, or with every row filtered out by the threshold, both
\* returned sequences are empty and no error is raised.
C6_EmptyResults ==
    (/\ Returned
     /\ \/ Len(boxes) = 0
        \/ \A j \in 1..Len(boxes) : boxes[j][3] <= class_score_th)
    => /\ result_boxes = <<>>
       /\ result_scores = <<>>
       /\ error = "none"

C6_Witness ==
    /\ Returned
    /\ Len(boxes) >= 2
    /\ \A j \in 1..Len(boxes) : boxes[j][3] <= class_score_th
    /\ \E j \in 1..Len(boxes) : boxes[j][3] = class_score_th
    /\ result_boxes = <<>>
    /\ result_scores = <<>>

\* C7: a completed call returns what the first completed call on the same image
\* returned, whatever calls happened in between, and no step changes
\* class_score_th, the model input shape, the input/output names or the providers.
C7_Idempotent ==
    /\ [](Returned =>
            /\ image \in DOMAIN first_result
            /\ first_result[image] = [boxes |-> result_boxes, scores |-> result_scores])
    /\ [][fields' = fields]_vars

\* the same frame a second time, another frame in between, with a detection
C7_Witness ==
    /\ Returned
    /\ Len(called) = 3
    /\ called[1] = called[3]
    /\ called[2] # called[1]
    /\ Len(result_boxes) >= 1
    /\ first_result[called[1]] # first_result[called[2]]

\* C8: for the same raw output and image, a threshold t2 >= class_score_th gives
\* no more detections than class_score_th does, and they are a subsequence of
\* what class_score_th gives.
C8_ThresholdMonotone ==
    Returned =>
        \A t2 \in Thresholds \cup ScoreVals :
            t2 >= class_score_th =>
                LET r2 == Postprocess(temp_image, boxes, t2, input_shapes)
                IN  /\ Len(r2.boxes) <= Len(result_boxes)
                    /\ Len(r2.scores) <= Len(result_scores)
                    /\ IsSubseq(Zip(r2.boxes, r2.scores), Zip(result_boxes, result_scores))

C8_Witness ==
    /\ Returned
    /\ \E t2 \in Thresholds :
          /\ t2 > class_score_th
          /\ Len(Postprocess(temp_image, boxes, t2, input_shapes).boxes) = 1
          /\ Len(result_boxes) = 3

\* C9: an error raised by the engine leaves __call__ unchanged: the engine was
\* invoked exactly once in that call, _postprocess did not run, no detection set
\* was produced; and a call that reaches _postprocess has invoked the engine once.
C9_EngineErrorPropagates ==
    /\ engine_error # "none" =>
          /\ pc = "raised"
          /\ error = engine_error
          /\ run_calls = 1
          /\ post_calls = 0
          /\ result_boxes = <<>>
          /\ result_scores = <<>>
    /\ pc \in {"post", "returned"} => run_calls = 1

\* the engine fails on the second frame
C9_Witness ==
    /\ pc = "raised"
    /\ error \in EngineErrors
    /\ Len(called) = 2
    /\ called[1] \in DOMAIN first_result

\* C10: every output coordinate is the raw coordinate clamped to both bounds
\* [0, model dimension], scaled to the image and truncated toward zero; class_id is
\* the truncated raw class id and the score is the raw score.
C10_ClampBothBounds ==
    Returned =>
        /\ Len(result_boxes) = Cardinality(KeptRows(boxes, class_score_th))
        /\ Len(result_scores) = Len(result_boxes)
        /\ \A i \in 1..Len(result_boxes) :
              LET r == boxes[NthKept(boxes, class_score_th, i)]
                  w == CoordScale * W_model
                  h == CoordScale * H_model
              IN  /\ result_boxes[i] =
                        <<IntTrunc(Clamp(r[4], 0, w) * image_width, w),
                          IntTrunc(Clamp(r[5], 0, h) * image_height, h),
                          IntTrunc(Clamp(r[6], 0, w) * image_width, w),
                          IntTrunc(Clamp(r[7], 0, h) * image_height, h),
                          IntTrunc(r[2], CoordScale)>>
                  /\ result_scores[i] = <<r[3]>>

====
